---- MODULE Spec2Model ----
(***************************************************************************)
(* Model of the three report pipelines of the repository:                  *)
(*   "base" : core/orchestrator.py            class Orchestrator           *)
(*   "seq"  : core/orchestrator_sequential.py class OrchestratorSequential *)
(*   "par"  : core/orchestrator_parallel.py   class Orchestrator           *)
(* Each is a langgraph StateGraph.  A run proceeds in steps: every stage   *)
(* triggered by the previous step reads the same State Record, the stages  *)
(* of one step run in any order, and their partial updates are merged into *)
(* the State Record when all of them have returned.  A stage is triggered  *)
(* as soon as ANY edge into it fires.                                      *)
(*                                                                         *)
(* A State Record key is the pair <<prefix, name>> of the branch prefix    *)
(* ("", "vis_", "rep_") and the rest of the key, so "vis_report_path" is   *)
(* <<"vis_", "report_path">> and "plots" is <<"", "plots">>.               *)
(* Labels returned by a critic are sequences of one-character strings.     *)
(*                                                                         *)
(* The State Record is a plain mapping: the seed keeps every key run()     *)
(* puts into it and a merge keeps every key a handler returns, whether or  *)
(* not GraphState / GraphParallelState declares the key.  This admits at   *)
(* least the runs of the compiled graph, so a safety property checked here *)
(* holds of them.                                                          *)
(***************************************************************************)
EXTENDS Integers, Sequences, FiniteSets, TLC

VARIABLES graph, state, todo, writes, triggered, phase, err,
          calls, lastCritic, verdicts, backEdges, wkeys, other

vars == <<graph, state, todo, writes, triggered, phase, err,
          calls, lastCritic, verdicts, backEdges, wkeys, other>>

MAX_RERUNS == 2

Graphs == {"base", "seq", "par"}

Sequential == {"base", "seq"}

Nodes == {"analyst", "visualizer", "report_draft", "critic", "report_final",
          "critic_vis", "critic_rep", "assembler"}

Branches == {"", "vis_", "rep_"}

END == "END"

K(p, b) == <<p, b>>

StartsWith(k, p) == k[1] = p

\* ---------------------------------------------------------------- values

NoneVal == <<"<None>">>

Get(s, k, default) == IF k \in DOMAIN s THEN s[k] ELSE default

NoneText == "<None>"

\* Python truthiness of a label (None and "" are falsy) and of a text.
LabelTruthy(v) == v # NoneVal /\ v # <<>>

TextTruthy(v) == v # NoneText /\ v # ""

LabelOr(a, b) == IF LabelTruthy(a) THEN a ELSE b

TextOr(a, b) == IF TextTruthy(a) THEN a ELSE b

Merge(s, u) == [k \in (DOMAIN s) \cup (DOMAIN u) |->
                   IF k \in DOMAIN u THEN u[k] ELSE s[k]]

\* ---------------------------------------------------------------- strings

LowerCase == <<"a","b","c","d","e","f","g","h","i","j","k","l","m",
               "n","o","p","q","r","s","t","u","v","w","x","y","z">>

UpperCase == <<"A","B","C","D","E","F","G","H","I","J","K","L","M",
               "N","O","P","Q","R","S","T","U","V","W","X","Y","Z">>

Whitespace == {" ", "\n", "\t"}

UpperChar(c) == IF \E i \in 1..Len(LowerCase) : LowerCase[i] = c
                THEN UpperCase[CHOOSE i \in 1..Len(LowerCase) : LowerCase[i] = c]
                ELSE c

RECURSIVE Upper(_)
Upper(d) == IF d = <<>> THEN <<>> ELSE <<UpperChar(Head(d))>> \o Upper(Tail(d))

RECURSIVE LStrip(_)
LStrip(d) == IF d # <<>> /\ Head(d) \in Whitespace THEN LStrip(Tail(d)) ELSE d

RECURSIVE RStrip(_)
RStrip(d) == IF d # <<>> /\ d[Len(d)] \in Whitespace
             THEN RStrip(SubSeq(d, 1, Len(d) - 1)) ELSE d

Strip(d) == RStrip(LStrip(d))

\* A label that is not a string: the integer 42, kept as its digits.
IntLabel == <<"<int>", "4", "2">>

\* The decision key is absent from the critic's result.
Missing == <<"<missing>">>

Str(v) == IF v = NoneVal THEN <<"N","o","n","e">>
          ELSE IF v # <<>> /\ v[1] = "<int>" THEN Tail(v)
          ELSE v

Contains(d, kw) == \E i \in 1..(Len(d) - Len(kw) + 1) :
                      SubSeq(d, i, i + Len(kw) - 1) = kw

ACCEPT == <<"A","C","C","E","P","T">>

RERUN == <<"R","E","R","U","N">>

REGENERATE == <<"R","E","G","E","N","E","R","A","T","E">>

REJECT == <<"R","E","J","E","C","T">>

AMBIGUOUS == <<"A","M","B","I","G","U","O","U","S">>

\* ---------------------------------------------------------------- agents

\* What a critic agent can hand back: its label, its feedback and the raw text.
CriticResults ==
  { [decision |-> ACCEPT,                        feedback |-> "ok",  raw |-> "text"],
    [decision |-> <<" ","a","c","c","e","p","t","\n">>,
                                                 feedback |-> "",    raw |-> "text"],
    [decision |-> RERUN,                         feedback |-> "fix", raw |-> "text"],
    [decision |-> REGENERATE,                    feedback |-> "fix", raw |-> "text"],
    [decision |-> REJECT,                        feedback |-> "",    raw |-> ""],
    [decision |-> AMBIGUOUS,                     feedback |-> "",    raw |-> "text"],
    [decision |-> <<"M","A","Y","B","E">>,       feedback |-> "fix", raw |-> "text"],
    [decision |-> <<"U","N","A","C","C","E","P","T","A","B","L","E">>,
                                                 feedback |-> "fix", raw |-> "text"],
    [decision |-> <<>>,                          feedback |-> "",    raw |-> "text"],
    [decision |-> NoneVal,                       feedback |-> "fix", raw |-> "text"],
    [decision |-> IntLabel,                      feedback |-> "fix", raw |-> "text"],
    [decision |-> Missing,                       feedback |-> "fix", raw |-> "text"] }

CriticAgent_run(p, r) ==
  (IF r.decision = Missing THEN [k \in {} |-> k]
   ELSE (K(p, "critic_llm_decision") :> r.decision)) @@
  (K(p, "critic_llm_feedback") :> r.feedback) @@
  (K(p, "critic_llm_raw") :> r.raw)

AnalystAgent_run ==
  (K("", "analysis") :> "analysis") @@
  (K("", "data_path") :> "data/output/cleaned.csv") @@
  (K("", "viz_plan") :> "plan")

VisualizationAgent_run(n) == (K("", "plots") :> <<"plots", n>>)

VisualizationParallelAgent_run(n) ==
  (K("", "report_path") :> "vis_report.md") @@
  (K("", "report_markdown") :> <<"vis_md", n>>) @@
  (K("", "plots") :> <<"plots", n>>)

ReportAgent_run(out_name, n) ==
  (K("", "report_path") :> out_name) @@
  (K("", "report_markdown") :> <<out_name, n>>)

AssemblerAgent_run(vis_md, rep_md) ==
  (K("", "final_report_path") :> "final_report.md") @@
  (K("", "final_report_markdown") :> <<"final_md", vis_md, rep_md>>)

\* ---------------------------------------------------------------- core/orchestrator.py

run(input_text, data_path) ==
  (K("", "input") :> input_text) @@
  (K("", "rerun_count") :> 0) @@
  (K("", "data_path") :> data_path)

\* The mandatory lookups state["k"] of a handler: a missing one raises KeyError.
node_analyst_reads == {K("", "input")}

node_analyst(s) == AnalystAgent_run

node_visualizer_reads == {K("", "data_path"), K("", "viz_plan")}

node_visualizer(s, n) ==
  LET res == VisualizationAgent_run(n)
  IN  (K("", "plots") :> res[K("", "plots")]) @@
      (K("", "plots_desc") :> Get(res, K("", "plots_desc"), <<>>))

node_report_draft(s, n) ==
  LET res == ReportAgent_run("report.md", n)
  IN  (K("", "report_path") :> res[K("", "report_path")]) @@
      (K("", "report_markdown") :> Get(res, K("", "report_markdown"), ""))

\* Mutant of KeywordOf: a label without a keyword is handed on as it came.
KeywordOf_passthrough(d) ==
  IF Contains(d, ACCEPT) THEN "ACCEPT"
  ELSE IF Contains(d, RERUN) \/ Contains(d, REGENERATE) THEN "RERUN"
  ELSE IF Contains(d, REJECT) THEN "REJECT"
  ELSE IF Contains(d, AMBIGUOUS) THEN "AMBIGUOUS"
  ELSE "UNKNOWN"

\* The keyword tests of _normalize_decision on the upper-cased, stripped label
\* d, in the order of the code.
KeywordOf(d) ==
  IF Contains(d, ACCEPT) THEN "ACCEPT"
  ELSE IF Contains(d, RERUN) \/ Contains(d, REGENERATE) THEN "RERUN"
  ELSE IF Contains(d, REJECT) THEN "REJECT"
  ELSE IF Contains(d, AMBIGUOUS) THEN "AMBIGUOUS"
  ELSE "AMBIGUOUS"

\* The values raw_decision can take: a label of the critic, or the default "".
RawDecisions == ({r.decision : r \in CriticResults} \ {Missing}) \cup {<<>>}

\* d = str(raw_decision).upper().strip() and its keyword, for every raw_decision.
Normalised == [v \in RawDecisions |-> KeywordOf(Strip(Upper(Str(v))))]

normalize_decision(res) ==
  LET raw_decision == LabelOr(Get(res, K("", "critic_llm_decision"), NoneVal),
                         Get(res, K("", "critic_decision"), <<>>))
  IN  Normalised[raw_decision]

\* Mutant of node_critic: a verdict that is forced forward is stored as ACCEPT.
node_critic_forced_accept(s, res) ==
  LET decision_norm == normalize_decision(res)
      rerun_count == Get(s, K("", "rerun_count"), 0)
      notes == TextOr(TextOr(Get(res, K("", "critic_llm_feedback"), NoneText),
                             Get(res, K("", "critic_llm_raw"), NoneText)), "No details.")
      needs_correction == decision_norm \in {"RERUN", "REJECT", "AMBIGUOUS"}
      do_rerun == needs_correction /\ (rerun_count < MAX_RERUNS)
  IN  (K("", "route_decision") :> decision_norm) @@
      (K("", "do_rerun") :> do_rerun) @@
      (K("", "rerun_count") :> IF do_rerun THEN rerun_count + 1 ELSE rerun_count) @@
      (K("", "critic_notes") :> notes) @@
      (K("", "critic_decision") :> IF do_rerun THEN decision_norm ELSE "ACCEPT") @@
      res

node_critic(s, res) ==
  LET decision_norm == normalize_decision(res)
      rerun_count == Get(s, K("", "rerun_count"), 0)
      notes == TextOr(TextOr(Get(res, K("", "critic_llm_feedback"), NoneText),
                             Get(res, K("", "critic_llm_raw"), NoneText)), "No details.")
      needs_correction == decision_norm \in {"RERUN", "REJECT", "AMBIGUOUS"}
      do_rerun == needs_correction /\ (rerun_count < MAX_RERUNS)
  IN  (K("", "route_decision") :> decision_norm) @@
      (K("", "do_rerun") :> do_rerun) @@
      (K("", "rerun_count") :> IF do_rerun THEN rerun_count + 1 ELSE rerun_count) @@
      (K("", "critic_notes") :> notes) @@
      (K("", "critic_decision") :> decision_norm) @@
      res

node_report_final(s, n) ==
  LET res == ReportAgent_run("report_final.md", n)
  IN  (K("", "report_path") :> res[K("", "report_path")]) @@
      (K("", "report_markdown") :> Get(res, K("", "report_markdown"), ""))

\* Mutant of route_after_critic: routes on the verdict, not on do_rerun.
route_after_critic_on_verdict(s) ==
  IF Get(s, K("", "route_decision"), "ACCEPT") # "ACCEPT" THEN "report_draft"
  ELSE "report_final"

route_after_critic(s) ==
  IF Get(s, K("", "do_rerun"), FALSE) THEN "report_draft" ELSE "report_final"

\* ---------------------------------------------------------------- core/orchestrator_sequential.py

SEQ_MAX_RERUNS == 2

seq_run(data_path) ==
  (K("", "rerun_count") :> 0) @@
  (K("", "data_path") :> data_path)

seq_node_visualizer(s, n) ==
  LET res == VisualizationAgent_run(n)
  IN  (K("", "plots") :> res[K("", "plots")]) @@
      (K("", "plots_desc") :> Get(res, K("", "plots_desc"), <<>>))

seq_node_report_draft(s, n) ==
  LET res == ReportAgent_run("report.md", n)
  IN  (K("", "report_path") :> res[K("", "report_path")]) @@
      (K("", "report_markdown") :> Get(res, K("", "report_markdown"), ""))

seq_node_critic(s, res) ==
  LET decision_norm == normalize_decision(res)
      rerun_count == Get(s, K("", "rerun_count"), 0)
      notes == TextOr(TextOr(Get(res, K("", "critic_llm_feedback"), NoneText),
                             Get(res, K("", "critic_llm_raw"), NoneText)), "No details.")
      needs_correction == decision_norm \in {"RERUN", "REJECT", "AMBIGUOUS"}
      do_rerun == needs_correction /\ (rerun_count < SEQ_MAX_RERUNS)
  IN  (K("", "route_decision") :> decision_norm) @@
      (K("", "do_rerun") :> do_rerun) @@
      (K("", "rerun_count") :> IF do_rerun THEN rerun_count + 1 ELSE rerun_count) @@
      (K("", "critic_notes") :> notes) @@
      (K("", "critic_decision") :> decision_norm) @@
      res

seq_node_report_final(s, n) ==
  LET res == ReportAgent_run("report_final.md", n)
  IN  (K("", "report_path") :> res[K("", "report_path")]) @@
      (K("", "report_markdown") :> Get(res, K("", "report_markdown"), ""))

seq_route_after_critic(s) ==
  IF Get(s, K("", "do_rerun"), FALSE) THEN "report_draft" ELSE "report_final"

\* ---------------------------------------------------------------- core/orchestrator_parallel.py

PAR_MAX_RERUNS == 2

par_run(data_path) ==
  (K("vis_", "rerun_count") :> 0) @@
  (K("rep_", "rerun_count") :> 0) @@
  (K("", "data_path") :> data_path)

par_node_analyst(s) == AnalystAgent_run

\* Mutant of par_node_visualizer: the markdown is returned under the
\* sequential pipeline's key.
par_node_visualizer_unprefixed(s, n) ==
  LET res == VisualizationParallelAgent_run(n)
  IN  (K("", "plots") :> res[K("", "plots")]) @@
      (K("", "plots_desc") :> Get(res, K("", "plots_desc"), <<>>)) @@
      (K("vis_", "report_path") :> res[K("", "report_path")]) @@
      (K("", "report_markdown") :> res[K("", "report_markdown")])

\* Mutant of par_node_visualizer: the stage hands its input fields back.
par_node_visualizer_rewrites_inputs(s, n) ==
  LET res == VisualizationParallelAgent_run(n)
  IN  (K("", "plots") :> res[K("", "plots")]) @@
      (K("", "plots_desc") :> Get(res, K("", "plots_desc"), <<>>)) @@
      (K("vis_", "report_path") :> res[K("", "report_path")]) @@
      (K("vis_", "report_markdown") :> res[K("", "report_markdown")]) @@
      (K("", "data_path") :> s[K("", "data_path")]) @@
      (K("", "viz_plan") :> s[K("", "viz_plan")])

par_node_visualizer(s, n) ==
  LET res == VisualizationParallelAgent_run(n)
  IN  (K("", "plots") :> res[K("", "plots")]) @@
      (K("", "plots_desc") :> Get(res, K("", "plots_desc"), <<>>)) @@
      (K("vis_", "report_path") :> res[K("", "report_path")]) @@
      (K("vis_", "report_markdown") :> res[K("", "report_markdown")])

\* Mutant of par_node_report_draft: the keys of the sequential pipeline.
par_node_report_draft_unprefixed(s, n) ==
  LET res == ReportAgent_run("rep_report.md", n)
  IN  (K("", "report_path") :> res[K("", "report_path")]) @@
      (K("", "report_markdown") :> res[K("", "report_markdown")])

par_node_report_draft(s, n) ==
  LET res == ReportAgent_run("rep_report.md", n)
  IN  (K("rep_", "report_path") :> res[K("", "report_path")]) @@
      (K("rep_", "report_markdown") :> res[K("", "report_markdown")])

par_normalize_decision(res, prefix) ==
  LET raw_decision == LabelOr(Get(res, K(prefix, "critic_llm_decision"), NoneVal),
                              Get(res, K(prefix, "critic_decision"), <<>>))
  IN  Normalised[raw_decision]

\* Mutant of node_critic_vis: the budget test is off by one.
node_critic_vis_off_by_one(s, res) ==
  LET decision_norm == par_normalize_decision(res, "vis_")
      rerun_count == Get(s, K("vis_", "rerun_count"), 0)
      notes == TextOr(TextOr(Get(res, K("vis_", "critic_llm_feedback"), NoneText),
                             Get(res, K("vis_", "critic_llm_raw"), NoneText)), "No details.")
      needs_correction == decision_norm \in {"RERUN", "REJECT", "AMBIGUOUS"}
      do_rerun == needs_correction /\ (rerun_count <= PAR_MAX_RERUNS)
  IN  (K("vis_", "route_decision") :> decision_norm) @@
      (K("vis_", "do_rerun") :> do_rerun) @@
      (K("vis_", "rerun_count") :> IF do_rerun THEN rerun_count + 1 ELSE rerun_count) @@
      (K("vis_", "critic_notes") :> notes) @@
      (K("vis_", "critic_decision") :> decision_norm) @@
      res

\* Mutant of node_critic_vis: the two branches share the counter of the report.
node_critic_vis_shared_counter(s, res) ==
  LET decision_norm == par_normalize_decision(res, "vis_")
      rerun_count == Get(s, K("rep_", "rerun_count"), 0)
      notes == TextOr(TextOr(Get(res, K("vis_", "critic_llm_feedback"), NoneText),
                             Get(res, K("vis_", "critic_llm_raw"), NoneText)), "No details.")
      needs_correction == decision_norm \in {"RERUN", "REJECT", "AMBIGUOUS"}
      do_rerun == needs_correction /\ (rerun_count < PAR_MAX_RERUNS)
  IN  (K("vis_", "route_decision") :> decision_norm) @@
      (K("vis_", "do_rerun") :> do_rerun) @@
      (K("rep_", "rerun_count") :> IF do_rerun THEN rerun_count + 1 ELSE rerun_count) @@
      (K("vis_", "critic_notes") :> notes) @@
      (K("vis_", "critic_decision") :> decision_norm) @@
      res

node_critic_vis(s, res) ==
  LET decision_norm == par_normalize_decision(res, "vis_")
      rerun_count == Get(s, K("vis_", "rerun_count"), 0)
      notes == TextOr(TextOr(Get(res, K("vis_", "critic_llm_feedback"), NoneText),
                             Get(res, K("vis_", "critic_llm_raw"), NoneText)), "No details.")
      needs_correction == decision_norm \in {"RERUN", "REJECT", "AMBIGUOUS"}
      do_rerun == needs_correction /\ (rerun_count < PAR_MAX_RERUNS)
  IN  (K("vis_", "route_decision") :> decision_norm) @@
      (K("vis_", "do_rerun") :> do_rerun) @@
      (K("vis_", "rerun_count") :> IF do_rerun THEN rerun_count + 1 ELSE rerun_count) @@
      (K("vis_", "critic_notes") :> notes) @@
      (K("vis_", "critic_decision") :> decision_norm) @@
      res

\* Mutant of node_critic_rep: the counter grows at every review.
node_critic_rep_always_counts(s, res) ==
  LET decision_norm == par_normalize_decision(res, "rep_")
      rerun_count == Get(s, K("rep_", "rerun_count"), 0)
      notes == TextOr(TextOr(Get(res, K("rep_", "critic_llm_feedback"), NoneText),
                             Get(res, K("rep_", "critic_llm_raw"), NoneText)), "No details.")
      needs_correction == decision_norm \in {"RERUN", "REJECT", "AMBIGUOUS"}
      do_rerun == needs_correction /\ (rerun_count < PAR_MAX_RERUNS)
  IN  (K("rep_", "route_decision") :> decision_norm) @@
      (K("rep_", "do_rerun") :> do_rerun) @@
      (K("rep_", "rerun_count") :> IF rerun_count < PAR_MAX_RERUNS THEN rerun_count + 1
                                   ELSE rerun_count) @@
      (K("rep_", "critic_notes") :> notes) @@
      (K("rep_", "critic_decision") :> decision_norm) @@
      res

\* Mutant of node_critic_rep: the notes go to the other branch's key.
node_critic_rep_wrong_prefix(s, res) ==
  LET decision_norm == par_normalize_decision(res, "rep_")
      rerun_count == Get(s, K("rep_", "rerun_count"), 0)
      notes == TextOr(TextOr(Get(res, K("rep_", "critic_llm_feedback"), NoneText),
                             Get(res, K("rep_", "critic_llm_raw"), NoneText)), "No details.")
      needs_correction == decision_norm \in {"RERUN", "REJECT", "AMBIGUOUS"}
      do_rerun == needs_correction /\ (rerun_count < PAR_MAX_RERUNS)
  IN  (K("rep_", "route_decision") :> decision_norm) @@
      (K("rep_", "do_rerun") :> do_rerun) @@
      (K("rep_", "rerun_count") :> IF do_rerun THEN rerun_count + 1 ELSE rerun_count) @@
      (K("vis_", "critic_notes") :> notes) @@
      (K("rep_", "critic_decision") :> decision_norm) @@
      res

node_critic_rep(s, res) ==
  LET decision_norm == par_normalize_decision(res, "rep_")
      rerun_count == Get(s, K("rep_", "rerun_count"), 0)
      notes == TextOr(TextOr(Get(res, K("rep_", "critic_llm_feedback"), NoneText),
                             Get(res, K("rep_", "critic_llm_raw"), NoneText)), "No details.")
      needs_correction == decision_norm \in {"RERUN", "REJECT", "AMBIGUOUS"}
      do_rerun == needs_correction /\ (rerun_count < PAR_MAX_RERUNS)
  IN  (K("rep_", "route_decision") :> decision_norm) @@
      (K("rep_", "do_rerun") :> do_rerun) @@
      (K("rep_", "rerun_count") :> IF do_rerun THEN rerun_count + 1 ELSE rerun_count) @@
      (K("rep_", "critic_notes") :> notes) @@
      (K("rep_", "critic_decision") :> decision_norm) @@
      res

node_assembler(s) ==
  LET res == AssemblerAgent_run(Get(s, K("vis_", "report_markdown"), NoneText),
                                Get(s, K("rep_", "report_markdown"), NoneText))
  IN  (K("", "final_report_path") :> res[K("", "final_report_path")]) @@
      (K("", "final_report_markdown") :> Get(res, K("", "final_report_markdown"), "")) @@
      (K("", "report_path") :> res[K("", "final_report_path")])

\* Mutant of route_vis: the backward label of the other branch.
route_vis_other_branch(s) ==
  IF Get(s, K("vis_", "do_rerun"), FALSE) THEN "report_draft" ELSE "assembler"

route_vis(s) ==
  IF Get(s, K("vis_", "do_rerun"), FALSE) THEN "visualizer" ELSE "assembler"

\* Mutant of route_rep: routes on the verdict, not on rep_do_rerun.
route_rep_on_verdict(s) ==
  IF Get(s, K("rep_", "route_decision"), "ACCEPT") # "ACCEPT" THEN "report_draft"
  ELSE "assembler"

route_rep(s) ==
  IF Get(s, K("rep_", "do_rerun"), FALSE) THEN "report_draft" ELSE "assembler"

\* ---------------------------------------------------------------- agent arguments

\* What _node_report_draft of the sequential graphs passes to the reporter.
node_report_draft_args(s) ==
  [analysis |-> Get(s, K("", "analysis"), ""),
   plots |-> Get(s, K("", "plots"), <<>>),
   critic_decision |-> Get(s, K("", "critic_decision"), NoneText),
   critic_notes |-> Get(s, K("", "critic_notes"), NoneText)]

\* What _node_report_final passes to the reporter; fallback tells that
\* critic_decision was missing or empty and the default was taken.
node_report_final_args(s) ==
  LET decision == Get(s, K("", "critic_decision"), NoneText)
  IN  [analysis |-> Get(s, K("", "analysis"), ""),
       plots |-> Get(s, K("", "plots"), <<>>),
       fallback |-> ~TextTruthy(decision),
       critic_decision |-> IF TextTruthy(decision) THEN decision ELSE "ACCEPT",
       critic_notes |-> Get(s, K("", "critic_notes"), NoneText)]

\* What the stage handlers of the parallel graph pass to their agents.
par_node_visualizer_args(s) ==
  [data_path |-> s[K("", "data_path")],
   viz_plan |-> s[K("", "viz_plan")],
   critic_notes |-> Get(s, K("vis_", "critic_notes"), NoneText),
   critic_decision |-> Get(s, K("vis_", "critic_decision"), NoneText)]

\* Mutant of par_node_report_draft_args: the notes of the other critic.
par_node_report_draft_args_vis_notes(s) ==
  [analysis |-> Get(s, K("", "analysis"), ""),
   plots |-> Get(s, K("", "plots"), <<>>),
   critic_decision |-> Get(s, K("rep_", "critic_decision"), NoneText),
   critic_notes |-> Get(s, K("vis_", "critic_notes"), NoneText)]

par_node_report_draft_args(s) ==
  [analysis |-> Get(s, K("", "analysis"), ""),
   plots |-> Get(s, K("", "plots"), <<>>),
   critic_decision |-> Get(s, K("rep_", "critic_decision"), NoneText),
   critic_notes |-> Get(s, K("rep_", "critic_notes"), NoneText)]

node_critic_vis_args(s) ==
  [report_path |-> Get(s, K("vis_", "report_path"), NoneText),
   report_markdown |-> Get(s, K("vis_", "report_markdown"), NoneVal),
   analysis |-> Get(s, K("", "analysis"), ""),
   plots |-> Get(s, K("", "plots"), <<>>)]

node_critic_rep_args(s) ==
  [report_path |-> Get(s, K("rep_", "report_path"), NoneText),
   report_markdown |-> Get(s, K("rep_", "report_markdown"), NoneVal),
   analysis |-> Get(s, K("", "analysis"), ""),
   plots |-> Get(s, K("", "plots"), <<>>)]


\* ---------------------------------------------------------------- the graphs (_build)

EntryPoint(g) == "analyst"

NodesOf(g) ==
  IF g = "par"
  THEN {"analyst", "visualizer", "report_draft", "critic_vis", "critic_rep", "assembler"}
  ELSE {"analyst", "visualizer", "report_draft", "critic", "report_final"}

\* Mutant of Edges: the visualizer is wired to the critic, not to the draft.
Edges_skip_first_draft(g) ==
  IF g = "par"
  THEN {<<"analyst", "visualizer">>, <<"analyst", "report_draft">>,
        <<"visualizer", "critic_vis">>, <<"report_draft", "critic_rep">>,
        <<"assembler", END>>}
  ELSE {<<"analyst", "visualizer">>, <<"visualizer", "critic">>,
        <<"report_draft", "critic">>, <<"report_final", END>>}

\* Mutant of Edges: the critics are wired back to their producers by plain edges.
Edges_unconditional_retry(g) ==
  IF g = "par"
  THEN {<<"analyst", "visualizer">>, <<"analyst", "report_draft">>,
        <<"visualizer", "critic_vis">>, <<"report_draft", "critic_rep">>,
        <<"critic_vis", "visualizer">>, <<"critic_rep", "report_draft">>,
        <<"assembler", END>>}
  ELSE {<<"analyst", "visualizer">>, <<"visualizer", "report_draft">>,
        <<"report_draft", "critic">>, <<"critic", "report_draft">>,
        <<"report_final", END>>}

\* Mutant of Edges: the draft is also wired straight to report_final.
Edges_final_after_draft(g) ==
  IF g = "par"
  THEN {<<"analyst", "visualizer">>, <<"analyst", "report_draft">>,
        <<"visualizer", "critic_vis">>, <<"report_draft", "critic_rep">>,
        <<"assembler", END>>}
  ELSE {<<"analyst", "visualizer">>, <<"visualizer", "report_draft">>,
        <<"report_draft", "critic">>, <<"report_draft", "report_final">>,
        <<"report_final", END>>}

\* add_edge(from, to)
Edges(g) ==
  IF g = "par"
  THEN {<<"analyst", "visualizer">>, <<"analyst", "report_draft">>,
        <<"visualizer", "critic_vis">>, <<"report_draft", "critic_rep">>,
        <<"assembler", END>>}
  ELSE {<<"analyst", "visualizer">>, <<"visualizer", "report_draft">>,
        <<"report_draft", "critic">>, <<"report_final", END>>}

\* Mutant of LabelMap: the forward label of critic_vis ends the run.
LabelMap_vis_forward_ends(g, n) ==
  IF g = "par" /\ n = "critic_vis"
  THEN ("visualizer" :> "visualizer") @@ ("assembler" :> END)
  ELSE IF g = "par" /\ n = "critic_rep"
  THEN ("report_draft" :> "report_draft") @@ ("assembler" :> "assembler")
  ELSE IF g # "par" /\ n = "critic"
  THEN ("report_draft" :> "report_draft") @@ ("report_final" :> "report_final")
  ELSE [x \in {} |-> x]

\* Mutant of LabelMap: the backward label of the sequential critic re-enters
\* the visualizer.
LabelMap_retry_from_visualizer(g, n) ==
  IF g = "par" /\ n = "critic_vis"
  THEN ("visualizer" :> "visualizer") @@ ("assembler" :> "assembler")
  ELSE IF g = "par" /\ n = "critic_rep"
  THEN ("report_draft" :> "report_draft") @@ ("assembler" :> "assembler")
  ELSE IF g # "par" /\ n = "critic"
  THEN ("report_draft" :> "visualizer") @@ ("report_final" :> "report_final")
  ELSE [x \in {} |-> x]

\* add_conditional_edges(from, router, label map): the label map of each source
LabelMap(g, n) ==
  IF g = "par" /\ n = "critic_vis"
  THEN ("visualizer" :> "visualizer") @@ ("assembler" :> "assembler")
  ELSE IF g = "par" /\ n = "critic_rep"
  THEN ("report_draft" :> "report_draft") @@ ("assembler" :> "assembler")
  ELSE IF g # "par" /\ n = "critic"
  THEN ("report_draft" :> "report_draft") @@ ("report_final" :> "report_final")
  ELSE [x \in {} |-> x]

\* the router of a conditional edge, applied to the State Record
Router(g, n, s) ==
  IF g = "par" /\ n = "critic_vis" THEN route_vis(s)
  ELSE IF g = "par" /\ n = "critic_rep" THEN route_rep(s)
  ELSE IF g = "seq" THEN seq_route_after_critic(s)
  ELSE route_after_critic(s)

\* The stages triggered by stage n returning update u on State Record s: the
\* targets of its edges, and the target its router picks on the record as n
\* has just updated it.
Successors(g, n, s, u) ==
  ({e[2] : e \in {d \in Edges(g) : d[1] = n}} \ {END})
  \cup (IF DOMAIN LabelMap(g, n) = {} THEN {}
        ELSE {LabelMap(g, n)[Router(g, n, Merge(s, u))]} \ {END})

\* The label the router of stage n returns is a key of the stage's label map.
RouterOk(g, n, s, u) ==
  DOMAIN LabelMap(g, n) = {} \/ Router(g, n, Merge(s, u)) \in DOMAIN LabelMap(g, n)

BranchesOf(g) == IF g = "par" THEN {"vis_", "rep_"} ELSE {""}

CriticOf(b) == IF b = "vis_" THEN "critic_vis"
               ELSE IF b = "rep_" THEN "critic_rep" ELSE "critic"

ProducerOf(b) == IF b = "vis_" THEN "visualizer" ELSE "report_draft"

ForwardOf(b) == IF b = "" THEN "report_final" ELSE "assembler"

MaxRerunsOf(g) == IF g = "par" THEN PAR_MAX_RERUNS
                  ELSE IF g = "seq" THEN SEQ_MAX_RERUNS ELSE MAX_RERUNS

Counter(s, b) == Get(s, K(b, "rerun_count"), 0)

\* ---------------------------------------------------------------- a run

EmptyUpdate == [x \in {} |-> x]

DefaultInputPath == "data/input/winequality-red.csv"

DataPathArgs == {NoneText, "upload.csv"}

Seed(g, data_path) ==
  IF g = "par" THEN par_run(TextOr(data_path, DefaultInputPath))
  ELSE IF g = "seq" THEN seq_run(TextOr(data_path, DefaultInputPath))
  ELSE run("prompt", TextOr(data_path, DefaultInputPath))

\* A second run of the same Orchestrator instance, as the executor keeps it:
\* no such run has been started,
NoRun ==
  [state |-> EmptyUpdate, todo |-> {}, writes |-> EmptyUpdate, triggered |-> {},
   phase |-> "idle", calls |-> [n \in Nodes |-> 0]]

\* or run() has built its State Record and handed it to the compiled graph.
StartRun(g, data_path) ==
  [state |-> Seed(g, data_path), todo |-> {EntryPoint(g)}, writes |-> EmptyUpdate,
   triggered |-> {}, phase |-> "running", calls |-> [n \in Nodes |-> 0]]

\* Mutant of SharedFields: the retry counters are kept on the instance.
SharedFields_counters == {K(b, "rerun_count") : b \in Branches}

\* The fields of a State Record that live on the Orchestrator instance and not
\* in the record run() builds: none.
SharedFields == {}

\* The State Record target of one run, after another run of the instance has
\* merged an update into its own record source.
ShareInto(target, source) ==
  [k \in DOMAIN target |->
     IF k \in SharedFields /\ k \in DOMAIN source THEN source[k] ELSE target[k]]

NoCritic == [cnt |-> 0, raw |-> <<>>, verdict |-> "NONE", notes |-> NoneText,
             route |-> "none"]

\* The state of a run that run() has just started.
InitRun ==
  /\ graph \in Graphs
  /\ \E data_path \in DataPathArgs : state = Seed(graph, data_path)
  /\ todo = {EntryPoint(graph)}
  /\ writes = EmptyUpdate
  /\ triggered = {}
  /\ phase = "running"
  /\ err = "none"
  /\ calls = [n \in Nodes |-> 0]
  /\ lastCritic = [b \in Branches |-> NoCritic]
  /\ verdicts = [b \in Branches |-> <<>>]
  /\ backEdges = [b \in Branches |-> 0]
  /\ wkeys = [n \in Nodes |-> {}]

Init == InitRun /\ other = NoRun

\* Stage n is invoked on the State Record and returns the partial update u.
Returns(n, u) ==
  /\ todo' = todo \ {n}
  /\ writes' = (n :> u) @@ writes
  /\ triggered' = triggered \cup Successors(graph, n, state, u)
  /\ calls' = [calls EXCEPT ![n] = @ + 1]
  /\ wkeys' = [wkeys EXCEPT ![n] = @ \cup DOMAIN u]
  /\ UNCHANGED <<graph, state, phase, err, backEdges, other>>

\* Mutant of Raises: the error is noted and the run goes on without the stage.
Raises_swallowed(n, e) ==
  /\ todo' = todo \ {n}
  /\ err' = e
  /\ calls' = [calls EXCEPT ![n] = @ + 1]
  /\ UNCHANGED <<graph, state, writes, triggered, phase, backEdges, wkeys, other>>

\* Stage n is invoked and raises: the run aborts, the step's updates are lost.
Raises(n, e) ==
  /\ todo' = {}
  /\ writes' = EmptyUpdate
  /\ triggered' = {}
  /\ phase' = "error"
  /\ err' = e
  /\ calls' = [calls EXCEPT ![n] = @ + 1]
  /\ UNCHANGED <<graph, state, backEdges, wkeys, other>>

Ready(n) == phase = "running" /\ n \in todo

\* What a failing handler raises: a missing key of the State Record, or the
\* error of its agent.
HandlerErrors == {"KeyError", "AgentError"}

NodeAnalyst ==
  /\ Ready("analyst")
  /\ IF graph = "par"
     THEN \E u \in {par_node_analyst(state)} : Returns("analyst", u)
     ELSE IF node_analyst_reads \subseteq DOMAIN state
          THEN \E u \in {node_analyst(state)} : Returns("analyst", u)
          ELSE Raises("analyst", "KeyError")
  /\ UNCHANGED <<lastCritic, verdicts>>

NodeVisualizer ==
  /\ Ready("visualizer")
  /\ LET n == calls["visualizer"] + 1
     IN  IF node_visualizer_reads \subseteq DOMAIN state
         THEN \E u \in {IF graph = "par" THEN par_node_visualizer(state, n)
                        ELSE IF graph = "seq" THEN seq_node_visualizer(state, n)
                        ELSE node_visualizer(state, n)} :
                Returns("visualizer", u)
         ELSE Raises("visualizer", "KeyError")
  /\ UNCHANGED <<lastCritic, verdicts>>

NodeReportDraft ==
  /\ Ready("report_draft")
  /\ LET n == calls["report_draft"] + 1
     IN  \E u \in {IF graph = "par" THEN par_node_report_draft(state, n)
                   ELSE IF graph = "seq" THEN seq_node_report_draft(state, n)
                   ELSE node_report_draft(state, n)} :
           Returns("report_draft", u)
  /\ UNCHANGED <<lastCritic, verdicts>>

\* The verdicts that ask for a correction (needs_correction) are "retry"
\* verdicts, the others "proceed" verdicts.
NeedsCorrection == {"RERUN", "REJECT", "AMBIGUOUS"}

VerdictClass(decision_norm) ==
  IF decision_norm \in NeedsCorrection THEN "retry" ELSE "proceed"

\* A critic stage of branch b returns update u; a router label that the label
\* map does not declare fails the run.
CriticReturns(b, u) ==
  IF RouterOk(graph, CriticOf(b), state, u)
  THEN /\ Returns(CriticOf(b), u)
       /\ lastCritic' = [lastCritic EXCEPT ![b] =
                           [cnt |-> Counter(state, b),
                            raw |-> Get(u, K(b, "critic_llm_decision"), NoneVal),
                            verdict |-> u[K(b, "critic_decision")],
                            notes |-> IF K(b, "critic_notes") \in DOMAIN u
                                      THEN u[K(b, "critic_notes")] ELSE NoneText,
                            route |-> LabelMap(graph, CriticOf(b))[Router(graph, CriticOf(b), Merge(state, u))]]]
       /\ verdicts' = [verdicts EXCEPT ![b] = Append(@, VerdictClass(u[K(b, "critic_decision")]))]
  ELSE /\ Raises(CriticOf(b), "UnknownRouteLabel")
       /\ UNCHANGED <<lastCritic, verdicts>>

NodeCritic ==
  /\ Ready("critic")
  /\ \E r \in CriticResults :
       \E u \in {IF graph = "seq" THEN seq_node_critic(state, CriticAgent_run("", r))
                 ELSE node_critic(state, CriticAgent_run("", r))} :
         CriticReturns("", u)

NodeCriticVis ==
  /\ Ready("critic_vis")
  /\ \E r \in CriticResults :
       \E u \in {node_critic_vis(state, CriticAgent_run("vis_", r))} :
         CriticReturns("vis_", u)

NodeCriticRep ==
  /\ Ready("critic_rep")
  /\ \E r \in CriticResults :
       \E u \in {node_critic_rep(state, CriticAgent_run("rep_", r))} :
         CriticReturns("rep_", u)

NodeReportFinal ==
  /\ Ready("report_final")
  /\ LET n == calls["report_final"] + 1
     IN  \E u \in {IF graph = "seq" THEN seq_node_report_final(state, n)
                   ELSE node_report_final(state, n)} :
           Returns("report_final", u)
  /\ UNCHANGED <<lastCritic, verdicts>>

NodeAssembler ==
  /\ Ready("assembler")
  /\ \E u \in {node_assembler(state)} : Returns("assembler", u)
  /\ UNCHANGED <<lastCritic, verdicts>>

\* The critic of a triggered critic stage cannot read the report it is to
\* review (no path, or no file at the path): the handler raises.
HandlerRaises ==
  /\ \E b \in BranchesOf(graph) : Ready(CriticOf(b)) /\ Raises(CriticOf(b), "AgentError")
  /\ UNCHANGED <<lastCritic, verdicts>>

\* Two stages of one step wrote the same key: the merge is refused.
Conflict(w) == \E n \in DOMAIN w : \E m \in DOMAIN w :
                  n # m /\ (DOMAIN w[n]) \cap (DOMAIN w[m]) # {}

\* Mutant of MergeAll: the updates of the step replace the State Record.
MergeAll_replace(s, w) ==
  [k \in UNION {DOMAIN w[n] : n \in DOMAIN w} |->
     w[CHOOSE n \in DOMAIN w : k \in DOMAIN w[n]][k]]

\* Mutant of MergeAll: the list-valued fields are appended to (operator.add).
MergeAll_append(s, w) ==
  [k \in (DOMAIN s) \cup UNION {DOMAIN w[n] : n \in DOMAIN w} |->
     IF \E n \in DOMAIN w : k \in DOMAIN w[n]
     THEN LET v == w[CHOOSE n \in DOMAIN w : k \in DOMAIN w[n]][k]
          IN  IF k \in {K("", "plots"), K("", "plots_desc")} /\ k \in DOMAIN s
              THEN s[k] \o v ELSE v
     ELSE s[k]]

MergeAll(s, w) ==
  [k \in (DOMAIN s) \cup UNION {DOMAIN w[n] : n \in DOMAIN w} |->
     IF \E n \in DOMAIN w : k \in DOMAIN w[n]
     THEN w[CHOOSE n \in DOMAIN w : k \in DOMAIN w[n]][k]
     ELSE s[k]]

\* Every stage of the step has returned: merge the updates into the State
\* Record and start the stages they triggered; with none triggered the run ends.
ApplyWrites ==
  /\ phase = "running"
  /\ todo = {}
  /\ IF Conflict(writes)
     THEN /\ phase' = "error"
          /\ err' = "InvalidUpdateError"
          /\ todo' = {}
          /\ UNCHANGED <<state, backEdges, other>>
     ELSE /\ state' = MergeAll(state, writes)
          /\ other' = [other EXCEPT !.state = ShareInto(@, state')]
          /\ todo' = triggered
          /\ phase' = IF triggered = {} THEN "done" ELSE "running"
          /\ backEdges' = [b \in Branches |->
                             IF CriticOf(b) \in DOMAIN writes /\ ProducerOf(b) \in triggered
                             THEN backEdges[b] + 1 ELSE backEdges[b]]
          /\ UNCHANGED err
  /\ writes' = EmptyUpdate
  /\ triggered' = {}
  /\ UNCHANGED <<graph, calls, lastCritic, verdicts, wkeys>>

Next ==
  \/ NodeAnalyst
  \/ NodeVisualizer
  \/ NodeReportDraft
  \/ NodeCritic
  \/ NodeCriticVis
  \/ NodeCriticRep
  \/ NodeReportFinal
  \/ NodeAssembler
  \/ HandlerRaises
  \/ ApplyWrites

Spec == Init /\ [][Next]_vars

\* The executor runs every stage it has triggered.
LiveSpec == Spec /\ WF_vars(Next)

\* ---------------------------------------------------------------- two runs of one instance

\* The fields stage n of graph g reads by mandatory lookup.
MandatoryReads(g, n) ==
  IF n = "analyst" /\ g \in Sequential THEN node_analyst_reads
  ELSE IF n = "visualizer" THEN node_visualizer_reads
  ELSE {}

\* The update stage n of graph g returns on the State Record s, for the
\* critic result r and the invocation number k.
HandlerUpdate(g, n, s, r, k) ==
  IF n = "analyst" THEN (IF g = "par" THEN par_node_analyst(s) ELSE node_analyst(s))
  ELSE IF n = "visualizer"
  THEN IF g = "par" THEN par_node_visualizer(s, k)
       ELSE IF g = "seq" THEN seq_node_visualizer(s, k) ELSE node_visualizer(s, k)
  ELSE IF n = "report_draft"
  THEN IF g = "par" THEN par_node_report_draft(s, k)
       ELSE IF g = "seq" THEN seq_node_report_draft(s, k) ELSE node_report_draft(s, k)
  ELSE IF n = "critic"
  THEN IF g = "seq" THEN seq_node_critic(s, CriticAgent_run("", r))
       ELSE node_critic(s, CriticAgent_run("", r))
  ELSE IF n = "critic_vis" THEN node_critic_vis(s, CriticAgent_run("vis_", r))
  ELSE IF n = "critic_rep" THEN node_critic_rep(s, CriticAgent_run("rep_", r))
  ELSE IF n = "assembler" THEN node_assembler(s)
  ELSE IF g = "seq" THEN seq_node_report_final(s, k) ELSE node_report_final(s, k)

\* The labels the critics hand back while two runs are interleaved.
ReentrantLabels == {ACCEPT, RERUN}

ReentrantResults == {r \in CriticResults : r.decision \in ReentrantLabels}

\* A step of the second run leaves the bookkeeping of the first run alone.
FirstRunKeeps ==
  UNCHANGED <<graph, todo, writes, triggered, phase, err, calls, lastCritic,
              verdicts, backEdges, wkeys>>

\* A triggered stage of the second run is invoked on that run's State Record
\* and returns, or raises on a missing mandatory field.
OtherStageRuns ==
  /\ other.phase = "running"
  /\ \E n \in other.todo : \E r \in ReentrantResults :
       IF MandatoryReads(graph, n) \subseteq DOMAIN other.state
       THEN \E u \in {HandlerUpdate(graph, n, other.state, r, other.calls[n] + 1)} :
              other' = [other EXCEPT
                          !.todo = @ \ {n},
                          !.writes = (n :> u) @@ @,
                          !.triggered = @ \cup Successors(graph, n, other.state, u),
                          !.calls[n] = @ + 1]
       ELSE other' = [other EXCEPT
                        !.todo = {}, !.writes = EmptyUpdate, !.triggered = {},
                        !.phase = "error", !.calls[n] = @ + 1]
  /\ UNCHANGED state
  /\ FirstRunKeeps

\* The second run merges the updates of its step into its State Record.
OtherApplyWrites ==
  /\ other.phase = "running"
  /\ other.todo = {}
  /\ IF Conflict(other.writes)
     THEN /\ other' = [other EXCEPT !.writes = EmptyUpdate, !.triggered = {},
                                    !.phase = "error"]
          /\ UNCHANGED state
     ELSE LET merged == MergeAll(other.state, other.writes)
          IN  /\ other' = [other EXCEPT
                             !.state = merged,
                             !.todo = other.triggered,
                             !.writes = EmptyUpdate,
                             !.triggered = {},
                             !.phase = IF other.triggered = {} THEN "done" ELSE "running"]
              /\ state' = ShareInto(state, merged)
  /\ FirstRunKeeps

\* A step of the first run, its critics handing back the same labels.
FirstRunSteps ==
  /\ Next
  /\ \A b \in Branches :
       lastCritic'[b].verdict = "NONE" \/ lastCritic'[b].raw \in ReentrantLabels

ReentrantInit == InitRun /\ \E data_path \in DataPathArgs : other = StartRun(graph, data_path)

ReentrantNext ==
  \/ FirstRunSteps
  \/ OtherStageRuns
  \/ OtherApplyWrites

\* Two runs started on one Orchestrator instance, interleaved stage by stage.
ReentrantSpec == ReentrantInit /\ [][ReentrantNext]_vars

\* ---------------------------------------------------------------- properties

CriticRan(b) == Len(verdicts'[b]) = Len(verdicts[b]) + 1

BranchStages == {"visualizer", "report_draft", "critic", "critic_vis", "critic_rep"}

\* C1: every branch's retry counter is 0 in the seed, never decreases, and
\* never exceeds the MAX_RERUNS of its graph.
C1_CounterBounded ==
  /\ \A b \in BranchesOf(graph) : Counter(state, b) = 0
  /\ [](\A b \in BranchesOf(graph) : Counter(state, b) \in 0..MaxRerunsOf(graph))
  /\ [][\A b \in BranchesOf(graph) : Counter(state', b) >= Counter(state, b)]_vars

C1_Witness ==
  /\ graph = "par"
  /\ phase = "done"
  /\ Counter(state, "vis_") = PAR_MAX_RERUNS
  /\ Counter(state, "rep_") = 1

\* C2: a critic that runs while its branch's counter equals MAX_RERUNS
\* triggers the forward successor of the branch and not the producing stage,
\* whatever its verdict.
C2_ForcedForward ==
  [][\A b \in BranchesOf(graph) :
       (CriticRan(b) /\ Counter(state, b) = MaxRerunsOf(graph))
       => /\ ForwardOf(b) \in triggered'
          /\ ProducerOf(b) \notin triggered'
          /\ lastCritic'[b].route = ForwardOf(b)]_vars

C2_Witness ==
  /\ graph = "base"
  /\ lastCritic[""].cnt = MAX_RERUNS
  /\ lastCritic[""].verdict = "REJECT"
  /\ lastCritic[""].route = "report_final"
  /\ phase = "done"

\* C3: unless a stage handler raises, every run ends, and no producing stage
\* or critic stage is invoked more than MAX_RERUNS + 1 times.
C3_Terminates ==
  /\ <>(phase = "done" \/ err \in HandlerErrors)
  /\ [](\A n \in BranchStages : calls[n] <= MaxRerunsOf(graph) + 1)

C3_Witness ==
  /\ graph = "par"
  /\ phase = "done"
  /\ calls["visualizer"] = PAR_MAX_RERUNS + 1
  /\ calls["critic_vis"] = PAR_MAX_RERUNS + 1
  /\ calls["report_draft"] = PAR_MAX_RERUNS + 1
  /\ calls["critic_rep"] = PAR_MAX_RERUNS + 1
  /\ lastCritic["vis_"].verdict # "ACCEPT"
  /\ lastCritic["rep_"].verdict # "ACCEPT"

\* C4: whenever the assembler is about to be invoked, both critics have most
\* recently routed to it and no visualizer, report_draft or critic stage is
\* pending in the same step.
C4_JoinWaitsForBothBranches ==
  Ready("assembler") =>
    /\ \A b \in {"vis_", "rep_"} : lastCritic[b].route = "assembler"
    /\ todo \cap BranchStages = {}

\* C5: the counter changes only when the branch takes its backward edge, by
\* exactly 1, and only if it was below MAX_RERUNS when the critic ran; it
\* equals the number of backward edges taken, which is the number of
\* invocations of the producing stage minus one once the re-invocation the
\* last backward edge asked for has happened.
C5_CounterCountsBackEdges ==
  /\ [](\A b \in BranchesOf(graph) :
          /\ Counter(state, b) = backEdges[b]
          /\ (calls[ProducerOf(b)] >= 1 /\ ProducerOf(b) \notin todo)
             => calls[ProducerOf(b)] - 1 = backEdges[b]
          /\ (calls[ProducerOf(b)] >= 1 /\ ProducerOf(b) \in todo)
             => calls[ProducerOf(b)] = backEdges[b])
  /\ [][\A b \in BranchesOf(graph) :
          (Counter(state', b) # Counter(state, b) \/ backEdges'[b] # backEdges[b])
          => /\ Counter(state', b) = Counter(state, b) + 1
             /\ backEdges'[b] = backEdges[b] + 1
             /\ lastCritic[b].cnt < MaxRerunsOf(graph)
             /\ lastCritic[b].route = ProducerOf(b)
             /\ ProducerOf(b) \in todo']_vars

C5_Witness ==
  /\ graph = "par"
  /\ backEdges["rep_"] = PAR_MAX_RERUNS
  /\ backEdges["vis_"] = 0
  /\ calls["report_draft"] = PAR_MAX_RERUNS + 1
  /\ phase = "done"

\* C6: in a sequential run whose critic verdicts are retry (RERUN, REJECT or
\* AMBIGUOUS), retry, proceed (ACCEPT) the draft stage has been invoked
\* exactly 3 times, the third review is followed by report_final and by no
\* further draft.
C6_RetryRetryProceed ==
  (graph \in Sequential /\ verdicts[""] = <<"retry", "retry", "proceed">>)
  => /\ calls["report_draft"] = 3
     /\ calls["critic"] = 3
     /\ "report_draft" \notin (todo \cup triggered)
     /\ \/ triggered = {"report_final"} /\ todo = {} /\ calls["report_final"] = 0
        \/ todo = {"report_final"} /\ triggered = {} /\ calls["report_final"] = 0
        \/ todo = {} /\ calls["report_final"] = 1

C6_Witness ==
  /\ graph = "base"
  /\ verdicts[""] = <<"retry", "retry", "proceed">>
  /\ lastCritic[""].verdict = "ACCEPT"
  /\ phase = "done"
  /\ calls["report_draft"] = 3

Recognised == {ACCEPT, RERUN, REGENERATE, REJECT, AMBIGUOUS}

\* C7: a critic label that, upper-cased and trimmed, is none of ACCEPT, RERUN,
\* REGENERATE, REJECT, AMBIGUOUS is normalised to AMBIGUOUS, and with budget
\* left the branch takes its backward edge.
C7_UnrecognisedNeverProceeds ==
  \A b \in BranchesOf(graph) :
    (lastCritic[b].verdict # "NONE" /\ Strip(Upper(Str(lastCritic[b].raw))) \notin Recognised)
    => /\ lastCritic[b].verdict = "AMBIGUOUS"
       /\ lastCritic[b].cnt < MaxRerunsOf(graph) => lastCritic[b].route = ProducerOf(b)

VisKeys == wkeys["visualizer"] \cup wkeys["critic_vis"]

RepKeys == wkeys["report_draft"] \cup wkeys["critic_rep"]

\* C8: in the parallel graph the keys written by the vis-branch stages and by
\* the rep-branch stages are disjoint, the assembler writes none of them, and
\* no two stages of one step return the same key.
C8_DisjointWrites ==
  graph = "par" =>
    /\ VisKeys \cap RepKeys = {}
    /\ wkeys["assembler"] \cap (VisKeys \cup RepKeys) = {}
    /\ ~Conflict(writes)
    /\ err # "InvalidUpdateError"

C8_Witness ==
  /\ graph = "par"
  /\ DOMAIN writes = {"assembler", "report_draft"}
  /\ wkeys["critic_vis"] # {}
  /\ wkeys["critic_rep"] # {}
  /\ wkeys["visualizer"] # {}

\* C9 as stated: every key written by visualizer or critic_vis starts with
\* vis_, every key written by report_draft or critic_rep starts with rep_.
C9_AllKeysPrefixed ==
  graph = "par" =>
    /\ \A k \in VisKeys : StartsWith(k, "vis_")
    /\ \A k \in RepKeys : StartsWith(k, "rep_")

UnprefixedVisualizerKeys == {K("", "plots"), K("", "plots_desc")}

\* C9 as amended: critic_vis writes only vis_ keys, report_draft and
\* critic_rep write only rep_ keys, and the visualizer writes vis_ keys and
\* the two unprefixed keys plots and plots_desc.
C9_KeysPrefixedExceptPlots ==
  graph = "par" =>
    /\ \A k \in wkeys["critic_vis"] : StartsWith(k, "vis_")
    /\ \A k \in wkeys["visualizer"] :
         StartsWith(k, "vis_") \/ k \in UnprefixedVisualizerKeys
    /\ calls["visualizer"] >= 1 => UnprefixedVisualizerKeys \subseteq wkeys["visualizer"]
    /\ \A k \in RepKeys : StartsWith(k, "rep_")

C9_Witness ==
  /\ graph = "par"
  /\ phase = "done"
  /\ K("", "plots") \in wkeys["visualizer"]
  /\ K("vis_", "report_path") \in wkeys["visualizer"]
  /\ K("vis_", "critic_notes") \in wkeys["critic_vis"]
  /\ K("rep_", "report_path") \in wkeys["report_draft"]
  /\ K("rep_", "critic_llm_raw") \in wkeys["critic_rep"]

OutputFields(b) == {K(b, "report_path"), K(b, "report_markdown")}

\* C10: whenever the assembler is about to be invoked, the output fields of
\* every branch whose critic has routed to it are in the State Record.
C10_BranchOutputsPresent ==
  Ready("assembler") =>
    \A b \in {"vis_", "rep_"} :
      lastCritic[b].route = "assembler" => OutputFields(b) \subseteq DOMAIN state

C10_Witness ==
  /\ Ready("assembler")
  /\ lastCritic["vis_"].route = "assembler"
  /\ lastCritic["rep_"].route = "assembler"
  /\ lastCritic["rep_"].cnt = PAR_MAX_RERUNS
  /\ lastCritic["vis_"].verdict = "ACCEPT"

\* C11: the State Record a completed parallel run returns holds the report of
\* both branches and the final report, and the final report was assembled by
\* an assembler invocation that read the last revision of both branches (the
\* revision number of a report is the number of the invocation that wrote it).
C11_FinalReportReadsLastRevisions ==
  (graph = "par" /\ phase = "done") =>
    /\ {K("vis_", "report_markdown"), K("rep_", "report_markdown"),
        K("", "final_report_path"), K("", "final_report_markdown")} \subseteq DOMAIN state
    /\ state[K("vis_", "report_markdown")] = <<"vis_md", calls["visualizer"]>>
    /\ state[K("rep_", "report_markdown")] = <<"rep_report.md", calls["report_draft"]>>
    /\ state[K("", "final_report_markdown")] =
         <<"final_md", <<"vis_md", calls["visualizer"]>>,
                       <<"rep_report.md", calls["report_draft"]>> >>

C11_Witness ==
  /\ graph = "par"
  /\ phase = "done"
  /\ calls["assembler"] = 2
  /\ calls["visualizer"] = PAR_MAX_RERUNS + 1
  /\ calls["report_draft"] = 1
  /\ K("", "final_report_markdown") \in DOMAIN state

\* C12: a handler that raises aborts the run at its stage: the step that
\* records the error leaves the State Record (and so every retry counter) as
\* it was, drops the updates of the step and triggers nothing; no step follows
\* it, so no stage is invoked afterwards, the failed handler is not invoked
\* again and the run never completes with a State Record.
C12_FailureAbortsRun ==
  [][/\ err = "none"
     /\ err' # "none" =>
          /\ phase' = "error"
          /\ state' = state
          /\ todo' = {} /\ triggered' = {} /\ writes' = EmptyUpdate]_vars

C12_Witness ==
  /\ graph = "par"
  /\ phase = "error"
  /\ err = "AgentError"
  /\ calls["critic_vis"] = 2
  /\ Counter(state, "vis_") = 1
  /\ calls["critic_rep"] = 1

Verdicts == {"ACCEPT", "RERUN", "REJECT", "AMBIGUOUS"}

HasKeyword(label) ==
  LET d == Strip(Upper(Str(label)))
  IN  \E kw \in {ACCEPT, RERUN, REGENERATE, REJECT, AMBIGUOUS} : Contains(d, kw)

\* C13: whatever label the critic handed back (a string, the empty string,
\* None, no label at all, a value that is not a string), the verdict the
\* critic stage computed from it is one of ACCEPT, RERUN, REJECT, AMBIGUOUS,
\* and it is AMBIGUOUS when the label holds none of the recognised keywords.
C13_NormalisationTotalAndClosed ==
  \A b \in Branches :
    lastCritic[b].verdict # "NONE" =>
      /\ lastCritic[b].verdict \in Verdicts
      /\ ~HasKeyword(lastCritic[b].raw) => lastCritic[b].verdict = "AMBIGUOUS"

C13_Witness ==
  /\ lastCritic["vis_"].raw = IntLabel
  /\ lastCritic["vis_"].verdict = "AMBIGUOUS"
  /\ lastCritic["rep_"].verdict = "AMBIGUOUS"
  /\ calls["critic_rep"] = 1
  /\ "critic_rep" \notin DOMAIN writes
  /\ K("rep_", "critic_decision") \in DOMAIN state
  /\ K("rep_", "critic_llm_decision") \notin DOMAIN state

\* The update the critic stage of branch b returns on State Record s when its
\* critic hands back the label d.
CriticUpdate(b, s, d) ==
  LET res == CriticAgent_run(b, [decision |-> d, feedback |-> "fix", raw |-> "text"])
  IN  IF b = "vis_" THEN node_critic_vis(s, res)
      ELSE IF b = "rep_" THEN node_critic_rep(s, res)
      ELSE IF graph = "seq" THEN seq_node_critic(s, res)
      ELSE node_critic(s, res)

\* The labels of the claim: REJECT, AMBIGUOUS, and the unrecognised ones.
RetryLikeLabels ==
  {r.decision : r \in CriticResults} \ {Missing, ACCEPT, RERUN, REGENERATE}

SameRetryOutcome(b, s, d) ==
  LET u == CriticUpdate(b, s, d)
      v == CriticUpdate(b, s, RERUN)
  IN  /\ u[K(b, "do_rerun")] = v[K(b, "do_rerun")]
      /\ u[K(b, "rerun_count")] = v[K(b, "rerun_count")]
      /\ Router(graph, CriticOf(b), Merge(s, u)) = Router(graph, CriticOf(b), Merge(s, v))

\* C14: whenever a critic stage is about to review, whatever the counter, the
\* labels REJECT, AMBIGUOUS and every unrecognised label give the same do_rerun
\* flag, the same counter update and the same next stage as the label RERUN.
C14_NonAcceptRoutesLikeRerun ==
  \A b \in BranchesOf(graph) :
    Ready(CriticOf(b)) =>
      \A d \in {l \in RetryLikeLabels : Strip(Upper(Str(l))) \notin {ACCEPT, RERUN, REGENERATE}} :
        SameRetryOutcome(b, state, d)

\* The same for REJECT, AMBIGUOUS and the labels that hold no keyword at all.
C14_KeywordFreeRoutesLikeRerun ==
  \A b \in BranchesOf(graph) :
    Ready(CriticOf(b)) =>
      \A d \in {l \in RetryLikeLabels : l \in {REJECT, AMBIGUOUS} \/ ~HasKeyword(l)} :
        SameRetryOutcome(b, state, d)

\* C15: a branch whose critic routed it forward with a verdict other than
\* ACCEPT had its counter at MAX_RERUNS when the critic ran, and once the
\* critic's update is merged the State Record holds that verdict, not ACCEPT,
\* under the branch's critic_decision key.
VerdictOf(label) == Normalised[LabelOr(label, <<>>)]

C15_ForcedForwardKeepsVerdict ==
  \A b \in BranchesOf(graph) :
    (lastCritic[b].route = ForwardOf(b) /\ VerdictOf(lastCritic[b].raw) # "ACCEPT") =>
      /\ lastCritic[b].cnt = MaxRerunsOf(graph)
      /\ (phase # "error" /\ CriticOf(b) \notin DOMAIN writes) =>
           /\ state[K(b, "critic_decision")] = VerdictOf(lastCritic[b].raw)
           /\ state[K(b, "critic_decision")] # "ACCEPT"

C15_Witness ==
  /\ graph = "base"
  /\ phase = "done"
  /\ lastCritic[""].route = "report_final"
  /\ lastCritic[""].cnt = MAX_RERUNS
  /\ lastCritic[""].verdict = "REJECT"
  /\ state[K("", "critic_decision")] = "REJECT"

C17_MergeIdempotent ==
  /\ (phase = "running" /\ todo = {} /\ ~Conflict(writes)) =>
       MergeAll(MergeAll(state, writes), writes) = MergeAll(state, writes)
  /\ (phase # "error" /\ calls["visualizer"] > 0 /\ "visualizer" \notin DOMAIN writes) =>
       state[K("", "plots")] = <<"plots", calls["visualizer"]>>

C17_Witness ==
  /\ graph = "par"
  /\ phase = "running"
  /\ todo = {}
  /\ DOMAIN writes = {"visualizer", "assembler"}
  /\ calls["visualizer"] = 2
  /\ state[K("", "plots")] = <<"plots", 1>>
  /\ writes["visualizer"][K("", "plots")] = <<"plots", 2>>

\* C18: the label a router returns on the State Record is a key of the label
\* map of its conditional edge, so no run fails on an unknown label; every
\* target of a label map and both ends of every edge are registered stages or
\* END, and so is every stage the run triggers.
C18_RoutesAreDeclared ==
  /\ err # "UnknownRouteLabel"
  /\ \A n \in NodesOf(graph) :
       /\ DOMAIN LabelMap(graph, n) # {} =>
            Router(graph, n, state) \in DOMAIN LabelMap(graph, n)
       /\ \A l \in DOMAIN LabelMap(graph, n) :
            LabelMap(graph, n)[l] \in NodesOf(graph) \cup {END}
  /\ \A e \in Edges(graph) :
       e[1] \in NodesOf(graph) /\ e[2] \in NodesOf(graph) \cup {END}
  /\ EntryPoint(graph) \in NodesOf(graph)
  /\ todo \cup triggered \subseteq NodesOf(graph)

C18_Witness ==
  /\ graph = "par"
  /\ err = "none"
  /\ lastCritic["vis_"].route = "visualizer"
  /\ lastCritic["rep_"].route = "assembler"
  /\ triggered = {"visualizer", "assembler"}

\* The edges the label maps of the conditional edges add to the graph.
ConditionalEdges(g) ==
  UNION {{<<n, LabelMap(g, n)[l]>> : l \in DOMAIN LabelMap(g, n)} : n \in NodesOf(g)}

\* The nodes reached from the set front over at most k more edges of E.
RECURSIVE Descendants(_, _, _)
Descendants(E, front, k) ==
  IF k = 0 THEN front
  ELSE Descendants(E, front \cup {e[2] : e \in {d \in E : d[1] \in front}}, k - 1)

OnCycle(E, n, bound) ==
  n \in Descendants(E, {e[2] : e \in {d \in E : d[1] = n}}, bound)

\* C19: in the sequential and in the parallel graph no stage lies on a cycle
\* of unconditional edges, so every cycle of the graph passes through the
\* conditional edge of a critic; a producing stage is invoked again only
\* after its critic took that edge.
C19_NoUnconditionalCycle ==
  /\ \A n \in NodesOf(graph) : ~OnCycle(Edges(graph), n, Cardinality(NodesOf(graph)))
  /\ \A b \in BranchesOf(graph) : calls[ProducerOf(b)] <= backEdges[b] + 1

C19_Witness ==
  /\ graph = "par"
  /\ OnCycle(Edges(graph) \cup ConditionalEdges(graph), "visualizer", Cardinality(NodesOf(graph)))
  /\ OnCycle(Edges(graph) \cup ConditionalEdges(graph), "report_draft", Cardinality(NodesOf(graph)))
  /\ backEdges["vis_"] = PAR_MAX_RERUNS
  /\ calls["visualizer"] = PAR_MAX_RERUNS + 1

RetryFields(b) == {K(b, "rerun_count"), K(b, "do_rerun")}

\* C20: in the parallel graph the counter and the do_rerun flag of a branch
\* are written by the critic of that branch only, and a step changes them
\* only when it merges an update of that critic: critic_vis leaves
\* rep_rerun_count and rep_do_rerun as they are, and critic_rep those of vis.
C20_RetryStatePerBranch ==
  [][graph = "par" =>
       \A b \in {"vis_", "rep_"} :
         /\ \A n \in Nodes \ {CriticOf(b)} : wkeys'[n] \cap RetryFields(b) = {}
         /\ (\/ Counter(state', b) # Counter(state, b)
             \/ Get(state', K(b, "do_rerun"), FALSE) # Get(state, K(b, "do_rerun"), FALSE))
            => CriticOf(b) \in DOMAIN writes]_vars

C20_Witness ==
  /\ graph = "par"
  /\ phase = "done"
  /\ Counter(state, "vis_") = PAR_MAX_RERUNS
  /\ Counter(state, "rep_") = 0
  /\ calls["critic_vis"] = PAR_MAX_RERUNS + 1
  /\ calls["critic_rep"] = 1
  /\ calls["report_draft"] = 1

\* The fields written upstream of the fork: by the seed and by the analyst.
PreForkFields == {K("", "data_path"), K("", "analysis"), K("", "viz_plan")}

\* C21: in the parallel graph no stage after the fork writes data_path,
\* analysis or viz_plan, and once the analyst's update is merged no step
\* changes the value of any of them.
C21_PreForkFieldsFrozen ==
  [][graph = "par" =>
       /\ \A n \in NodesOf(graph) \ {"analyst"} : wkeys'[n] \cap PreForkFields = {}
       /\ (calls["analyst"] = 1 /\ "analyst" \notin DOMAIN writes) =>
            \A k \in PreForkFields : k \in DOMAIN state' /\ state'[k] = state[k]]_vars

C21_Witness ==
  /\ graph = "par"
  /\ phase = "done"
  /\ calls["visualizer"] = PAR_MAX_RERUNS + 1
  /\ calls["report_draft"] = PAR_MAX_RERUNS + 1
  /\ calls["assembler"] = 1
  /\ state[K("", "data_path")] = "data/output/cleaned.csv"
  /\ state[K("", "viz_plan")] = "plan"

Invoked(n) == calls'[n] = calls[n] + 1

\* C22: in a sequential graph at most one stage is triggered or has an
\* unmerged update at any time; the analyst is invoked first, the visualizer
\* after it and before any draft, a draft only when every earlier draft has
\* been reviewed, the critic only on a draft it has not reviewed yet, and
\* report_final only after the last draft was reviewed; a critic's update
\* triggers report_draft or report_final only; a completed run has invoked
\* analyst, visualizer and report_final once each and as many critics as drafts.
C22_SequentialOrder ==
  [][(graph \in Sequential) =>
       /\ Cardinality(todo) <= 1 /\ Cardinality(todo') <= 1
       /\ Cardinality(DOMAIN writes') <= 1
       /\ Invoked("analyst") =>
            \A n \in Nodes : calls[n] = 0
       /\ Invoked("visualizer") =>
            /\ calls["analyst"] = 1
            /\ calls["visualizer"] = 0 /\ calls["report_draft"] = 0
       /\ Invoked("report_draft") =>
            /\ calls["visualizer"] = 1
            /\ calls["critic"] = calls["report_draft"]
            /\ calls["report_final"] = 0
       /\ Invoked("critic") =>
            /\ calls["report_draft"] = calls["critic"] + 1
            /\ calls["report_final"] = 0
       /\ Invoked("report_final") =>
            /\ calls["critic"] = calls["report_draft"]
            /\ calls["critic"] >= 1
            /\ calls["report_final"] = 0
       /\ "critic" \in DOMAIN writes => todo' \subseteq {"report_draft", "report_final"}
       /\ phase' = "done" =>
            /\ calls'["analyst"] = 1 /\ calls'["visualizer"] = 1
            /\ calls'["report_final"] = 1
            /\ calls'["report_draft"] = calls'["critic"]
     ]_vars

C22_Witness ==
  /\ graph = "base"
  /\ phase = "done"
  /\ calls["analyst"] = 1
  /\ calls["visualizer"] = 1
  /\ calls["report_draft"] = MAX_RERUNS + 1
  /\ calls["critic"] = MAX_RERUNS + 1
  /\ calls["report_final"] = 1

C24_AssemblerInvokedOnce == graph = "par" => calls["assembler"] <= 1

\* C25: every stage that is about to be invoked finds the fields it reads by
\* mandatory lookup in the State Record, in the runs of all three
\* orchestrators, so no run fails with a KeyError.
C25_MandatoryFieldsPresent ==
  /\ \A n \in todo : Ready(n) => MandatoryReads(graph, n) \subseteq DOMAIN state
  /\ err # "KeyError"

\* The State Record s without the fields of the set ks.
Erase(s, ks) == [k \in (DOMAIN s) \ ks |-> s[k]]

\* C26: in the parallel graph what a stage of one branch passes to its agent
\* is the same with and without the fields the stages of the other branch
\* have written so far: the inputs of report_draft and critic_rep do not
\* depend on the progress of the vis branch, nor those of visualizer and
\* critic_vis on the progress of the rep branch.
C26_BranchInputsIndependent ==
  graph = "par" =>
    /\ Ready("report_draft") =>
         par_node_report_draft_args(state) = par_node_report_draft_args(Erase(state, VisKeys))
    /\ Ready("critic_rep") =>
         node_critic_rep_args(state) = node_critic_rep_args(Erase(state, VisKeys))
    /\ Ready("visualizer") =>
         par_node_visualizer_args(state) = par_node_visualizer_args(Erase(state, RepKeys))
    /\ Ready("critic_vis") =>
         node_critic_vis_args(state) = node_critic_vis_args(Erase(state, RepKeys))

\* The critic notes and verdict the producing stage of branch b passes on.
ProducerFeedback(b, s) ==
  LET a == IF b = "vis_" THEN par_node_visualizer_args(s)
           ELSE IF b = "rep_" THEN par_node_report_draft_args(s)
           ELSE node_report_draft_args(s)
  IN  [critic_notes |-> a.critic_notes, critic_decision |-> a.critic_decision]

\* C27: a producing stage that is about to be invoked for the first time
\* passes no critic notes and no verdict to its agent; one that is about to be
\* invoked again was sent back by the last critic invocation of its branch and
\* passes the notes and the verdict of that invocation, and the notes are not
\* empty.
C27_ProducerGetsOwnCriticNotes ==
  \A b \in BranchesOf(graph) :
    (Ready(ProducerOf(b)) /\ MandatoryReads(graph, ProducerOf(b)) \subseteq DOMAIN state) =>
      IF calls[ProducerOf(b)] = 0
      THEN ProducerFeedback(b, state) =
             [critic_notes |-> NoneText, critic_decision |-> NoneText]
      ELSE /\ lastCritic[b].route = ProducerOf(b)
           /\ ProducerFeedback(b, state) =
                [critic_notes |-> lastCritic[b].notes,
                 critic_decision |-> lastCritic[b].verdict]
           /\ TextTruthy(lastCritic[b].notes)

C27_Witness ==
  /\ graph = "par"
  /\ Ready("report_draft")
  /\ todo = {"report_draft"}
  /\ calls["report_draft"] = 1
  /\ lastCritic["rep_"].notes = "No details."
  /\ lastCritic["vis_"].notes = "fix"
  /\ par_node_report_draft_args(state).critic_notes = "No details."

\* The update stage n of the sequential orchestrator g returns on the State
\* Record s, for the critic result r and the invocation number k.
SequentialUpdate(g, n, s, r, k) ==
  IF n = "analyst" THEN node_analyst(s)
  ELSE IF n = "visualizer"
  THEN IF g = "seq" THEN seq_node_visualizer(s, k) ELSE node_visualizer(s, k)
  ELSE IF n = "report_draft"
  THEN IF g = "seq" THEN seq_node_report_draft(s, k) ELSE node_report_draft(s, k)
  ELSE IF n = "critic"
  THEN IF g = "seq" THEN seq_node_critic(s, CriticAgent_run("", r))
       ELSE node_critic(s, CriticAgent_run("", r))
  ELSE IF g = "seq" THEN seq_node_report_final(s, k) ELSE node_report_final(s, k)

\* C28: OrchestratorSequential and the base Orchestrator are the same state
\* machine: on every State Record a run of either reaches, the triggered
\* stage returns the same update under both and the two routers pick the same
\* label, the two graphs have the same edges and label maps, and a run of
\* either that no agent fails goes through to the end.
C28_SequentialOrchestratorsEquivalent ==
  graph \in Sequential =>
    /\ \A n \in todo : \A r \in CriticResults :
         (Ready(n) /\ MandatoryReads("base", n) \subseteq DOMAIN state) =>
           SequentialUpdate("seq", n, state, r, calls[n] + 1)
             = SequentialUpdate("base", n, state, r, calls[n] + 1)
    /\ seq_route_after_critic(state) = route_after_critic(state)
    /\ Edges("seq") = Edges("base")
    /\ \A n \in NodesOf("base") : LabelMap("seq", n) = LabelMap("base", n)
    /\ (phase # "running" /\ err # "AgentError") => phase = "done"

\* C29: whenever report_final of a sequential graph is about to be invoked,
\* the critic has been invoked at least once and the State Record holds its
\* verdict under critic_decision, so report_final passes that verdict on and
\* never takes its fallback.
C29_FinalNeverUsesFallback ==
  (graph \in Sequential /\ Ready("report_final")) =>
    /\ calls["critic"] >= 1
    /\ K("", "critic_decision") \in DOMAIN state
    /\ ~node_report_final_args(state).fallback
    /\ node_report_final_args(state).critic_decision = lastCritic[""].verdict

C29_Witness ==
  /\ graph = "base"
  /\ Ready("report_final")
  /\ calls["critic"] = MAX_RERUNS + 1
  /\ lastCritic[""].raw = <<>>
  /\ node_report_final_args(state).critic_decision = "AMBIGUOUS"

====
